---------------------------- MODULE Spec2Model ----------------------------
(***************************************************************************)
(* A model of src/main.py: the restaurant menu analysis utility.           *)
(*                                                                         *)
(* Text is modelled as a sequence of one-character strings, so that        *)
(* str.split, str.strip, str.lower, float(), int() and the "%.3f" format   *)
(* are computed character by character as Python computes them.  A Python  *)
(* float is an IEEE-754 double: it is modelled exactly, as a sign and a    *)
(* magnitude held in fixed point with FracLimbs * LimbBits = 56 fractional *)
(* bits, which represents zero and every double whose magnitude lies in    *)
(* [2^-4, 2^7); every text of the model's input pools lies in that range.  *)
(***************************************************************************)
EXTENDS Integers, Sequences, FiniteSets, TLC

(***************************************************************************)
(* Text helpers (Python str methods).                                      *)
(***************************************************************************)
DigitChars == <<"0", "1", "2", "3", "4", "5", "6", "7", "8", "9">>

IsDigit(c) == \E i \in 1..10 : DigitChars[i] = c

DigitVal(c) == (CHOOSE i \in 1..10 : DigitChars[i] = c) - 1

IsSpace(c) == c = " "

\* str.lower() on the characters the prompts' answers may hold
LowerChar(c) ==
    CASE c = "Y" -> "y"
      [] c = "E" -> "e"
      [] c = "S" -> "s"
      [] c = "N" -> "n"
      [] c = "O" -> "o"
      [] OTHER   -> c

Lower(s) == [i \in 1..Len(s) |-> LowerChar(s[i])]

RECURSIVE LStrip(_)
LStrip(s) == IF s # << >> /\ IsSpace(Head(s)) THEN LStrip(Tail(s)) ELSE s

RECURSIVE RStrip(_)
RStrip(s) ==
    IF s # << >> /\ IsSpace(s[Len(s)]) THEN RStrip(SubSeq(s, 1, Len(s) - 1)) ELSE s

\* str.strip()
Strip(s) == RStrip(LStrip(s))

\* str.rstrip('0')
RECURSIVE RStripZeros(_)
RStripZeros(s) ==
    IF s # << >> /\ s[Len(s)] = "0" THEN RStripZeros(SubSeq(s, 1, Len(s) - 1)) ELSE s

\* str.split(sep): always at least one token; "" splits to <<"">>
RECURSIVE SplitFrom(_, _, _, _)
SplitFrom(s, sep, i, cur) ==
    IF i > Len(s) THEN <<cur>>
    ELSE IF s[i] = sep THEN <<cur>> \o SplitFrom(s, sep, i + 1, << >>)
    ELSE SplitFrom(s, sep, i + 1, Append(cur, s[i]))

Split(s, sep) == SplitFrom(s, sep, 1, << >>)

AllDigits(s) == \A i \in 1..Len(s) : IsDigit(s[i])

\* the natural number a string of digits denotes
RECURSIVE DigitsToNat(_)
DigitsToNat(s) ==
    IF s = << >> THEN 0
    ELSE 10 * DigitsToNat(SubSeq(s, 1, Len(s) - 1)) + DigitVal(s[Len(s)])

\* str(n) for a natural number n
RECURSIVE NatToText(_)
NatToText(n) ==
    IF n < 10 THEN <<DigitChars[n + 1]>>
    ELSE Append(NatToText(n \div 10), DigitChars[(n % 10) + 1])

RECURSIVE Pow(_, _)
Pow(b, e) == IF e = 0 THEN 1 ELSE b * Pow(b, e - 1)

(***************************************************************************)
(* Multi-limb naturals: a sequence of NumLimbs limbs, most significant     *)
(* first, each below LimbBase = 2^LimbBits.                                *)
(***************************************************************************)
LimbBits == 14
LimbBase == 16384
NumLimbs == 6
FracLimbs == 4
MantBits == 53

\* a natural number below 2^31 as limbs
RECURSIVE FromNatAcc(_, _, _)
FromNatAcc(n, i, acc) ==
    IF i = 0 THEN acc ELSE FromNatAcc(n \div LimbBase, i - 1, <<n % LimbBase>> \o acc)

BigFromNat(n) == FromNatAcc(n, NumLimbs, << >>)

BigZero == BigFromNat(0)

IsBigZero(x) == \A i \in 1..NumLimbs : x[i] = 0

\* x * 2^(FracLimbs * LimbBits)
BigShiftFrac(x) == SubSeq(x, FracLimbs + 1, NumLimbs) \o SubSeq(BigZero, 1, FracLimbs)

RECURSIVE AddFrom(_, _, _, _, _)
AddFrom(x, y, i, carry, acc) ==
    IF i = 0 THEN acc
    ELSE AddFrom(x, y, i - 1, (x[i] + y[i] + carry) \div LimbBase,
                 <<(x[i] + y[i] + carry) % LimbBase>> \o acc)

\* x + y
BigAdd(x, y) == AddFrom(x, y, NumLimbs, 0, << >>)

RECURSIVE SubFrom(_, _, _, _, _)
SubFrom(x, y, i, borrow, acc) ==
    IF i = 0 THEN acc
    ELSE SubFrom(x, y, i - 1, IF x[i] - y[i] - borrow < 0 THEN 1 ELSE 0,
                 <<(x[i] - y[i] - borrow + LimbBase) % LimbBase>> \o acc)

\* x - y, for x >= y
BigSub(x, y) == SubFrom(x, y, NumLimbs, 0, << >>)

RECURSIVE CmpFrom(_, _, _)
CmpFrom(x, y, i) ==
    IF i > NumLimbs THEN 0
    ELSE IF x[i] < y[i] THEN -1
    ELSE IF x[i] > y[i] THEN 1
    ELSE CmpFrom(x, y, i + 1)

\* -1, 0 or 1 as x <, =, > y
BigCmp(x, y) == CmpFrom(x, y, 1)

RECURSIVE MulFrom(_, _, _, _, _)
MulFrom(x, m, i, carry, acc) ==
    IF i = 0 THEN acc
    ELSE MulFrom(x, m, i - 1, (x[i] * m + carry) \div LimbBase,
                 <<(x[i] * m + carry) % LimbBase>> \o acc)

\* x * m, for 0 <= m < LimbBase
BigMulSmall(x, m) == MulFrom(x, m, NumLimbs, 0, << >>)

RECURSIVE DivFrom(_, _, _, _, _)
DivFrom(x, d, i, rem, acc) ==
    IF i > NumLimbs THEN [quot |-> acc, rem |-> rem]
    ELSE DivFrom(x, d, i + 1, (rem * LimbBase + x[i]) % d,
                 Append(acc, (rem * LimbBase + x[i]) \div d))

\* floor(x / d) and x mod d, for 0 < d < LimbBase
BigDivSmall(x, d) == DivFrom(x, d, 1, 0, << >>)

RECURSIVE BitLenNat(_)
BitLenNat(v) == IF v = 0 THEN 0 ELSE 1 + BitLenNat(v \div 2)

RECURSIVE BitLenFrom(_, _)
BitLenFrom(x, i) ==
    IF i > NumLimbs THEN 0
    ELSE IF x[i] # 0 THEN (NumLimbs - i) * LimbBits + BitLenNat(x[i])
    ELSE BitLenFrom(x, i + 1)

\* the number of significant bits of x
BitLen(x) == BitLenFrom(x, 1)

(***************************************************************************)
(* IEEE-754 double arithmetic, round-to-nearest-even.                      *)
(* A double is [neg |-> BOOLEAN, mag |-> limbs], mag in units of 2^-56.    *)
(***************************************************************************)
\* q + rem/d (0 <= rem < d) rounded to MantBits significant bits
RoundToDouble(q, rem, d) ==
    LET drop == BitLen(q) - MantBits
    IN  IF IsBigZero(q) THEN q
        ELSE IF drop < 0 THEN q
        ELSE LET unit  == Pow(2, drop)
                 low   == q[NumLimbs] % unit
                 base  == BigSub(q, BigFromNat(low))
                 odd   == (q[NumLimbs] \div unit) % 2 = 1
                 cmp   == IF drop = 0
                          THEN (IF 2 * rem > d THEN 1 ELSE IF 2 * rem = d THEN 0 ELSE -1)
                          ELSE (IF 2 * low > unit THEN 1
                                ELSE IF 2 * low < unit THEN -1
                                ELSE IF rem > 0 THEN 1 ELSE 0)
                 up    == cmp > 0 \/ (cmp = 0 /\ odd)
             IN  IF up THEN BigAdd(base, BigFromNat(unit)) ELSE base

FloatZero == [neg |-> FALSE, mag |-> BigZero]

\* the double nearest to (-1)^neg * n / 10^fracDigits
FloatFromDecimal(neg, n, fracDigits) ==
    LET dr == BigDivSmall(BigShiftFrac(BigFromNat(n)), Pow(10, fracDigits))
    IN  [neg |-> neg, mag |-> RoundToDouble(dr.quot, dr.rem, Pow(10, fracDigits))]

\* float(n) for an integer n: exact
FloatFromInt(n) ==
    [neg |-> n < 0, mag |-> BigShiftFrac(BigFromNat(IF n < 0 THEN -n ELSE n))]

\* x + y
FloatAdd(x, y) ==
    IF x.neg = y.neg
    THEN [neg |-> x.neg, mag |-> RoundToDouble(BigAdd(x.mag, y.mag), 0, 1)]
    ELSE IF BigCmp(x.mag, y.mag) = 0 THEN FloatZero
    ELSE IF BigCmp(x.mag, y.mag) > 0
    THEN [neg |-> x.neg, mag |-> RoundToDouble(BigSub(x.mag, y.mag), 0, 1)]
    ELSE [neg |-> y.neg, mag |-> RoundToDouble(BigSub(y.mag, x.mag), 0, 1)]

\* x / n for an integer n in 1..LimbBase-1
FloatDivInt(x, n) ==
    LET dr == BigDivSmall(x.mag, n)
    IN  [neg |-> x.neg, mag |-> RoundToDouble(dr.quot, dr.rem, n)]

\* x < y (-0.0 equals 0.0)
FloatLess(x, y) ==
    IF IsBigZero(x.mag) /\ IsBigZero(y.mag) THEN FALSE
    ELSE IF x.neg /\ ~y.neg THEN TRUE
    ELSE IF ~x.neg /\ y.neg THEN FALSE
    ELSE IF x.neg THEN BigCmp(x.mag, y.mag) > 0
    ELSE BigCmp(x.mag, y.mag) < 0

\* x >= y
FloatGeq(x, y) == ~FloatLess(x, y)

\* a natural number as text, zero-padded on the left to `width` characters
RECURSIVE ZeroPad(_, _)
ZeroPad(t, width) == IF Len(t) >= width THEN t ELSE ZeroPad(<<"0">> \o t, width)

\* f"{x:.{decimals}f}": the exact binary value of x rounded half-even to
\* `decimals` decimal places (decimals in 1..4)
FormatFixed(x, decimals) ==
    LET scale == Pow(10, decimals)
        t     == BigMulSmall(x.mag, scale)
        whole == t[NumLimbs - FracLimbs - 1] * LimbBase + t[NumLimbs - FracLimbs]
        frac  == SubSeq(BigZero, 1, NumLimbs - FracLimbs)
                     \o SubSeq(t, NumLimbs - FracLimbs + 1, NumLimbs)
        half  == SubSeq(BigZero, 1, NumLimbs - FracLimbs) \o <<LimbBase \div 2>>
                     \o SubSeq(BigZero, 1, FracLimbs - 1)
        cmp   == BigCmp(frac, half)
        r     == IF cmp > 0 \/ (cmp = 0 /\ whole % 2 = 1) THEN whole + 1 ELSE whole
    IN  (IF x.neg THEN <<"-">> ELSE << >>)
        \o NatToText(r \div scale) \o <<".">>
        \o ZeroPad(NatToText(r % scale), decimals)

(***************************************************************************)
(* float(text) and int(text) over the alphabet digits, ".", "-", "+", " "  *)
(* and letters: optional surrounding spaces, an optional sign, then digits *)
(* (for float: with at most one point and at least one digit).  Anything   *)
(* else raises ValueError: ok = FALSE.                                     *)
(***************************************************************************)
HasSign(s) == s # << >> /\ s[1] \in {"-", "+"}

Unsigned(s) == IF HasSign(s) THEN Tail(s) ELSE s

\* float(text)
ParseFloat(text) ==
    LET s     == Strip(text)
        body  == Unsigned(s)
        parts == Split(body, ".")
        valid == /\ Len(parts) \in {1, 2}
                 /\ \A i \in 1..Len(parts) : AllDigits(parts[i])
                 /\ \E i \in 1..Len(parts) : parts[i] # << >>
        frac  == IF Len(parts) = 2 THEN parts[2] ELSE << >>
    IN  IF valid
        THEN [ok |-> TRUE,
              val |-> FloatFromDecimal(HasSign(s) /\ s[1] = "-",
                                       DigitsToNat(parts[1] \o frac), Len(frac))]
        ELSE [ok |-> FALSE, val |-> FloatZero]

\* int(text)
ParseInt(text) ==
    LET s    == Strip(text)
        body == Unsigned(s)
    IN  IF body # << >> /\ AllDigits(body)
        THEN [ok |-> TRUE,
              val |-> IF HasSign(s) /\ s[1] = "-" THEN -DigitsToNat(body)
                      ELSE DigitsToNat(body)]
        ELSE [ok |-> FALSE, val |-> 0]


(***************************************************************************)
(* The data model and the pure functions of src/main.py.                   *)
(* A cell of the file is a text; a name or a category, which the code      *)
(* never inspects, is held as a one-element sequence.                      *)
(***************************************************************************)
required_fields == <<"item", "price", "category", "ratings", "sales_per_day">>

days_of_week == <<"Mon", "Tue", "Wed", "Thu", "Fri", "Sat", "Sun">>

DaySet == {days_of_week[i] : i \in 1..Len(days_of_week)}

DayIndex(d) == CHOOSE i \in 1..Len(days_of_week) : days_of_week[i] = d

SalesArity == 7

max_decimals_default == 2

UnderratedMaxSales == 50

UnprofitableMaxSales == 30

\* the float literals 4.5 and 3.5
UnderratedMinRating == FloatFromDecimal(FALSE, 45, 1)

UnprofitableMaxRating == FloatFromDecimal(FALSE, 35, 1)

\* the outcome of an operation that may raise: exc = "none" and the value, or
\* the exception's class and what raised it
Returned(v) == [exc |-> "none", why |-> "", obj |-> v]

Raised(e, w) == [exc |-> e, why |-> w, obj |-> << >>]

\* validate_float_precision comparing against one digit too many
validate_float_precisionOffByOne(value, max_decimals) ==
    LET str_value       == FormatFixed(value, max_decimals + 1)
        fractional_part == Split(str_value, ".")[2]
    IN  ~(Len(RStripZeros(fractional_part)) > max_decimals + 1)

\* validate_float_precision: TRUE when it returns True, FALSE when it raises
\* ValueError
validate_float_precision(value, max_decimals) ==
    LET str_value       == FormatFixed(value, max_decimals + 1)
        fractional_part == Split(str_value, ".")[2]
    IN  ~(Len(RStripZeros(fractional_part)) > max_decimals)

\* MenuItem.__init__ rejecting only a sales field of fewer than 7 values, the
\* zip dropping the values past the seventh
MenuItemTruncates(item, price, category, ratings, sales_per_day) ==
    IF ratings.none THEN Raised("AttributeError", "ratings")
    ELSE
    LET rating_tokens == Split(ratings.text, ",")
        rating_values == [i \in 1..Len(rating_tokens) |-> ParseFloat(rating_tokens[i])]
    IN  IF \E i \in 1..Len(rating_tokens) : ~rating_values[i].ok
        THEN Raised("ValueError", "ratings")
        ELSE IF Len(rating_tokens) = 0 THEN Raised("ValueError", "ratings_empty")
        ELSE IF sales_per_day.none THEN Raised("AttributeError", "sales_per_day")
        ELSE
        LET sales_values == Split(sales_per_day.text, ",")
        IN  IF Len(sales_values) < SalesArity THEN Raised("ValueError", "sales_count")
            ELSE IF \E i \in 1..SalesArity : ~ParseInt(sales_values[i]).ok
            THEN Raised("ValueError", "sales_per_day")
            ELSE Returned(
                   [item          |-> item,
                    price         |-> price,
                    category      |-> category,
                    ratings       |-> [i \in 1..Len(rating_tokens) |-> rating_values[i].val],
                    sales_per_day |-> [d \in DaySet |->
                                         ParseInt(sales_values[DayIndex(d)]).val]])

\* MenuItem.__init__; ratings and sales_per_day are cells: [none, text], none
\* being a cell the row does not have (csv.DictReader's restval None)
MenuItem(item, price, category, ratings, sales_per_day) ==
    IF ratings.none THEN Raised("AttributeError", "ratings")
    ELSE
    LET rating_tokens == Split(ratings.text, ",")
        rating_values == [i \in 1..Len(rating_tokens) |-> ParseFloat(rating_tokens[i])]
    IN  IF \E i \in 1..Len(rating_tokens) : ~rating_values[i].ok
        THEN Raised("ValueError", "ratings")
        ELSE IF Len(rating_tokens) = 0 THEN Raised("ValueError", "ratings_empty")
        ELSE IF sales_per_day.none THEN Raised("AttributeError", "sales_per_day")
        ELSE
        LET sales_values == Split(sales_per_day.text, ",")
        IN  IF Len(sales_values) # SalesArity THEN Raised("ValueError", "sales_count")
            ELSE IF \E i \in 1..SalesArity : ~ParseInt(sales_values[i]).ok
            THEN Raised("ValueError", "sales_per_day")
            ELSE Returned(
                   [item          |-> item,
                    price         |-> price,
                    category      |-> category,
                    ratings       |-> [i \in 1..Len(rating_tokens) |-> rating_values[i].val],
                    sales_per_day |-> [d \in DaySet |->
                                         ParseInt(sales_values[DayIndex(d)]).val]])

\* sum(self.ratings): left to right from the integer 0
RECURSIVE SumRatings(_, _)
SumRatings(ratings, n) ==
    IF n = 0 THEN FloatFromInt(0) ELSE FloatAdd(SumRatings(ratings, n - 1), ratings[n])

\* MenuItem.average_rating
average_rating(self) ==
    IF Len(self.ratings) # 0
    THEN FloatDivInt(SumRatings(self.ratings, Len(self.ratings)), Len(self.ratings))
    ELSE FloatZero

\* sum(item.sales_per_day.values())
RECURSIVE SumSales(_, _)
SumSales(sales, n) ==
    IF n = 0 THEN 0 ELSE SumSales(sales, n - 1) + sales[days_of_week[n]]

total_sales(item) == SumSales(item.sales_per_day, Len(days_of_week))

\* the test of identify_underrated_items with a strict rating threshold
IsUnderratedStrict(item) ==
    FloatLess(UnderratedMinRating, average_rating(item))
        /\ total_sales(item) < UnderratedMaxSales

\* the test of identify_underrated_items
IsUnderrated(item) ==
    FloatGeq(average_rating(item), UnderratedMinRating)
        /\ total_sales(item) < UnderratedMaxSales

\* the test of identify_unprofitable_items
IsUnprofitable(item) ==
    FloatLess(average_rating(item), UnprofitableMaxRating)
        /\ total_sales(item) < UnprofitableMaxSales

(***************************************************************************)
(* csv.DictReader: a row is the sequence of its cells in column order; the *)
(* row's dict maps the header's i-th name to the i-th cell, and to None    *)
(* for a name past the row's last cell.                                    *)
(***************************************************************************)
InHeader(header, col) == \E i \in 1..Len(header) : header[i] = col

ColumnOf(header, col) == CHOOSE i \in 1..Len(header) : header[i] = col

\* row[col] for a column of the header
RowGet(header, cells, col) ==
    IF ColumnOf(header, col) <= Len(cells)
    THEN [none |-> FALSE, text |-> cells[ColumnOf(header, col)]]
    ELSE [none |-> TRUE, text |-> << >>]

\* the body of the try of load_data_from_csv's loop, up to the construction
\* of the MenuItem
ParseRow(header, cells) ==
    IF ~InHeader(header, "price") THEN Raised("KeyError", "price")
    ELSE IF RowGet(header, cells, "price").none THEN Raised("TypeError", "price")
    ELSE
    LET price == ParseFloat(RowGet(header, cells, "price").text)
    IN  IF ~price.ok THEN Raised("ValueError", "price")
        ELSE IF ~validate_float_precision(price.val, max_decimals_default)
        THEN Raised("ValueError", "precision")
        ELSE IF \E i \in 1..Len(required_fields) : ~InHeader(header, required_fields[i])
        THEN Raised("KeyError", "row")
        ELSE MenuItem(RowGet(header, cells, "item").text,
                      price.val,
                      RowGet(header, cells, "category").text,
                      RowGet(header, cells, "ratings"),
                      RowGet(header, cells, "sales_per_day"))

\* a dict insertion that keeps the entry a name already has
DictSetKeepFirst(menu_items, item) ==
    IF \E i \in 1..Len(menu_items) : menu_items[i].item = item.item
    THEN menu_items
    ELSE Append(menu_items, item)

\* menu_items[name] = item on an insertion-ordered dict, held as the sequence
\* of its values
DictSet(menu_items, item) ==
    IF \E i \in 1..Len(menu_items) : menu_items[i].item = item.item
    THEN [i \in 1..Len(menu_items) |->
            IF menu_items[i].item = item.item THEN item ELSE menu_items[i]]
    ELSE Append(menu_items, item)

\* a loop that skips a failing row and goes on
LoadStepSkipRow(menu_items, outcome) ==
    IF outcome.exc = "none"
    THEN [returnsNone |-> FALSE, menu_items |-> DictSet(menu_items, outcome.obj)]
    ELSE [returnsNone |-> FALSE, menu_items |-> menu_items]

\* one iteration of load_data_from_csv's loop on the outcome of ParseRow:
\* whether the function returns None here, and the mapping
LoadStep(menu_items, outcome) ==
    IF outcome.exc = "none"
    THEN [returnsNone |-> FALSE, menu_items |-> DictSet(menu_items, outcome.obj)]
    ELSE [returnsNone |-> TRUE, menu_items |-> menu_items]

\* the rows of generate_sample_csv after the header
sample_data ==
  <<
     <<<<"Chicken Parmigiana">>, <<"1", "9", ".", "9", "9">>, <<"Main">>,
       <<"4", ".", "5", ",", "4", ".", "7", ",", "5", ".", "0">>,
       <<"1", "0", ",", "1", "5", ",", "2", "0", ",", "2", "5", ",", "3", "0", ",", "3", "5", ",", "4", "0">>>>,
     <<<<"Fish and Chips">>, <<"1", "8", ".", "9", "9">>, <<"Main">>,
       <<"4", ".", "8", ",", "4", ".", "9", ",", "4", ".", "7">>,
       <<"5", ",", "1", "0", ",", "1", "5", ",", "2", "0", ",", "2", "5", ",", "3", "0", ",", "3", "5">>>>,
     <<<<"Margherita Pizza">>, <<"1", "5", ".", "9", "9">>, <<"Main">>,
       <<"4", ".", "0", ",", "4", ".", "2", ",", "4", ".", "3">>,
       <<"5", "0", ",", "6", "0", ",", "7", "0", ",", "8", "0", ",", "9", "0", ",", "1", "0", "0", ",", "1", "1", "0">>>>,
     <<<<"Caesar Salad">>, <<"9", ".", "9", "9">>, <<"Starter">>,
       <<"4", ".", "5", ",", "4", ".", "6", ",", "4", ".", "8">>,
       <<"2", "0", ",", "2", "5", ",", "3", "0", ",", "3", "5", ",", "4", "0", ",", "4", "5", ",", "5", "0">>>>,
     <<<<"Garlic Bread">>, <<"6", ".", "9", "9">>, <<"Starter">>,
       <<"4", ".", "8", ",", "4", ".", "9", ",", "4", ".", "7">>,
       <<"1", "0", ",", "5", ",", "1", ",", "1", "5", ",", "3", ",", "5", ",", "1", "0">>>>,
     <<<<"Tiramisu">>, <<"7", ".", "9", "9">>, <<"Dessert">>,
       <<"4", ".", "7", ",", "4", ".", "8", ",", "4", ".", "9">>,
       <<"1", "5", ",", "2", "0", ",", "2", "5", ",", "3", "0", ",", "3", "5", ",", "4", "0", ",", "4", "5">>>>,
     <<<<"Cheesecake">>, <<"6", ".", "9", "9">>, <<"Dessert">>,
       <<"2", ".", "5", ",", "2", ".", "7", ",", "2", ".", "8">>,
       <<"1", ",", "2", ",", "3", ",", "4", ",", "5", ",", "6", ",", "7">>>>
  >>

(***************************************************************************)
(* The inputs: the texts a user may type and a file may hold.              *)
(***************************************************************************)
Yes == <<"y", "e", "s">>

YesUpper == <<" ", "Y", "E", "S", " ">>

No == <<"n", "o">>

Empty == <<>>

One == <<"1">>

OnePadded == <<" ", "1", " ">>

Two == <<"2">>

Three == <<"3">>

Price1999 == <<"1", "9", ".", "9", "9">>

Price19990 == <<"1", "9", ".", "9", "9", "0">>

Price19999 == <<"1", "9", ".", "9", "9", "9">>

Price199901 == <<"1", "9", ".", "9", "9", "0", "1">>

PriceNegative == <<"-", "1", ".", "5", "0">>

PriceWord == <<"a", "b", "c">>

Ratings45 == <<"4", ".", "5">>

RatingsFloat45 == <<"4", ".", "1", ",", "4", ".", "8", ",", "4", ".", "6">>

Ratings445 == <<"4", ".", "4", ",", "4", ".", "5">>

Ratings35 == <<"3", ".", "5">>

Ratings34 == <<" ", "3", ".", "4">>

RatingsBadToken == <<"4", ".", "5", ",", "x">>

Sales49 == <<"1", "0", ",", "5", ",", "1", ",", "1", "5", ",", "3", ",", "5", ",", "1", "0">>

Sales50 == <<"1", "0", ",", "5", ",", "1", ",", "1", "5", ",", "3", ",", "5", ",", "1", "1">>

Sales29 == <<"1", ",", "2", ",", "3", ",", "4", ",", "5", ",", "6", ",", "8">>

Sales30 == <<"1", ",", "2", ",", "3", ",", "4", ",", "5", ",", "6", ",", "9">>

SalesSix == <<"1", ",", "2", ",", "3", ",", "4", ",", "5", ",", "6">>

SalesEight == <<"1", ",", "2", ",", "3", ",", "4", ",", "5", ",", "6", ",", "7", ",", "8">>

SalesBadToken == <<"1", ",", "2", ",", "3", ",", "4", ",", "5", ",", "6", ",", "x">>

SalesNegative == <<"-", "5", ",", "2", ",", "3", ",", "4", ",", "5", ",", "6", ",", "7">>

\* the answers to a yes/no prompt, and to the 1/2 menu
Answers == {Yes, YesUpper, No, Empty}

Choices == {One, OnePadded, Two, Three}

NameA == <<"A">>

NameB == <<"B">>

Row(name, price, ratings, sales) == <<name, price, <<"Main">>, ratings, sales>>

\* rows on both sides of each threshold of the two classifications
GridRows ==
    {Row(NameA, Price1999, Ratings45, Sales49),
     Row(NameA, Price19990, Ratings45, Sales50),
     Row(NameA, Price1999, Ratings445, Sales49),
     Row(NameA, Price1999, RatingsFloat45, Sales49),
     Row(NameA, Price1999, Ratings34, Sales29),
     Row(NameA, Price1999, Ratings34, Sales30),
     Row(NameA, Price1999, Ratings35, Sales29)}

PriceRows ==
    {Row(NameA, p, Ratings45, Sales49) :
        p \in {Price199901, Price19999, PriceWord}}

RatingsRows == {Row(NameA, Price1999, r, Sales49) : r \in {Empty, RatingsBadToken}}

SalesRows ==
    {Row(NameA, Price1999, Ratings45, s) : s \in {SalesSix, SalesEight, SalesBadToken}}

NameRows ==
    {Row(NameB, Price1999, Ratings34, Sales29), Row(NameB, PriceNegative, Ratings45, SalesNegative)}

\* rows with fewer cells than the header has columns
ShortRows == {<<NameA>>, <<NameA, Price1999, <<"Main">>, Ratings45>>}

RowPool == GridRows \cup PriceRows \cup RatingsRows \cup SalesRows \cup NameRows \cup ShortRows

HeaderAbsent == << >>

HeaderNoCategory == <<"item", "price", "ratings", "sales_per_day">>

HeaderNoPriceNoRatings == <<"sales_per_day", "category", "item">>

Headers == {required_fields, HeaderAbsent, HeaderNoCategory, HeaderNoPriceNoRatings}

\* the most rows a user's file holds, and the most times the prompt loop of
\* handle_csv_creation goes round again
MaxRows == 3

MaxPrompts == 2

(***************************************************************************)
(* The state.                                                              *)
(*   pc         where main is: "acquire" (in handle_csv_creation's loop),  *)
(*              "validate", "load", "rows" (in load_data_from_csv's loop), *)
(*              "display", "popular", "underrated", "unprofitable", "done" *)
(*   file       menu.csv: whether it exists, its header, the number of its *)
(*              rows, and whether generate_sample_csv wrote it; the rows   *)
(*              of a user's file are drawn as the reader reaches them      *)
(*   attempts   how often the current prompt loop has gone round again     *)
(*   asked      the answers read in the last iteration of the prompt loop  *)
(*   acquired   what handle_csv_creation returned: "unset", the file name, *)
(*              or "None"                                                  *)
(*   read       the rows the reader has yielded, in file order             *)
(*   menu_items the dict of load_data_from_csv, as the sequence of its     *)
(*              values in insertion order                                  *)
(*   menu_data  what load_data_from_csv returned: "unset", "None", or      *)
(*              "dict" when it returned menu_items                         *)
(*   output     what main, validate_csv_structure, load_data_from_csv and  *)
(*              the four reports printed, in order (the dialogue of        *)
(*              handle_csv_creation is held in asked alone)                *)
(***************************************************************************)
VARIABLES pc, file, attempts, asked, acquired, read, menu_items, menu_data, output

vars == <<pc, file, attempts, asked, acquired, read, menu_items, menu_data, output>>

sample_csv == "menu.csv"

NoFile == [exists |-> FALSE, header |-> << >>, nrows |-> 0, sample |-> FALSE]

UserFiles ==
    {[exists |-> TRUE, header |-> h, nrows |-> n, sample |-> FALSE] :
        h \in Headers, n \in 0..MaxRows}

\* the file generate_sample_csv leaves
generate_sample_csv ==
    [exists |-> TRUE, header |-> required_fields, nrows |-> Len(sample_data),
     sample |-> TRUE]

\* the rows the reader may yield as row k of the file
NextRows(f, k) == IF f.sample THEN {sample_data[k]} ELSE RowPool

Msg(kind, info) == [kind |-> kind, info |-> info]

\* an answer taken as yes unless it is no
AnsweredNotNo(answer) == Lower(Strip(answer)) # No

\* .strip().lower() == 'yes'
AnsweredYes(answer) == Lower(Strip(answer)) = Yes

\* .strip() == c
ChoiceIs(answer, c) == Strip(answer) = c

\* only the first of the required fields that reader.fieldnames lacks
missing_fieldsFirstOnly(fieldnames) ==
    LET missing == SelectSeq(required_fields, LAMBDA field : ~InHeader(fieldnames, field))
    IN  IF missing = << >> THEN << >> ELSE <<missing[1]>>

\* [field for field in required_fields if field not in reader.fieldnames]
missing_fields(fieldnames) ==
    SelectSeq(required_fields, LAMBDA field : ~InHeader(fieldnames, field))

\* main going on to the reports whatever load_data_from_csv returned
TruthyAlways(data) == TRUE

\* the truth value of menu_data in main's `if not menu_data`: None and the
\* empty dict are false
Truthy(data) == data = "dict" /\ menu_items # << >>

ItemNames(items) == [i \in 1..Len(items) |-> items[i].item]

Init ==
    /\ pc = "acquire"
    /\ file \in {NoFile} \cup UserFiles
    /\ attempts = 0
    /\ asked = << >>
    /\ acquired = "unset"
    /\ read = << >>
    /\ menu_items = << >>
    /\ menu_data = "unset"
    /\ output = << >>

(***************************************************************************)
(* handle_csv_creation: one action per iteration of its loop, and main's   *)
(* test of what it returns.                                                *)
(***************************************************************************)
\* return default_filename
ReturnPath(answers) ==
    /\ asked' = answers
    /\ acquired' = sample_csv
    /\ attempts' = 0
    /\ pc' = "validate"
    /\ UNCHANGED <<read, menu_items, menu_data, output>>

\* return None, and main ends the program
ReturnNone(answers) ==
    /\ asked' = answers
    /\ acquired' = "None"
    /\ attempts' = 0
    /\ pc' = "done"
    /\ output' = Append(output, Msg("TerminatedCsvRequired", << >>))
    /\ UNCHANGED <<file, read, menu_items, menu_data>>

\* continue
Retry(answers) ==
    /\ attempts < MaxPrompts
    /\ attempts' = attempts + 1
    /\ asked' = answers
    /\ UNCHANGED <<pc, file, acquired, read, menu_items, menu_data, output>>

\* the file exists
handle_csv_creation_exists ==
    /\ pc = "acquire"
    /\ file.exists
    /\ \E use_existing \in Answers :
         IF AnsweredYes(use_existing)
         THEN ReturnPath(<<use_existing>>) /\ UNCHANGED file
         ELSE \E choice \in Choices :
                IF ChoiceIs(choice, One)
                THEN \E confirm \in Answers :
                       IF AnsweredYes(confirm)
                       THEN /\ file' = generate_sample_csv
                            /\ ReturnPath(<<use_existing, choice, confirm>>)
                       ELSE Retry(<<use_existing, choice, confirm>>)
                ELSE IF ChoiceIs(choice, Two)
                THEN ReturnNone(<<use_existing, choice>>)
                ELSE Retry(<<use_existing, choice>>)

\* the file does not exist
handle_csv_creation_missing ==
    /\ pc = "acquire"
    /\ ~file.exists
    /\ \E generate \in Answers :
         IF AnsweredYes(generate)
         THEN /\ file' = generate_sample_csv
              /\ ReturnPath(<<generate>>)
         ELSE ReturnNone(<<generate>>)

(***************************************************************************)
(* validate_csv_structure and main's test of what it returns.  The open()  *)
(* may fail, which the function's except branches turn into False.         *)
(***************************************************************************)
validate_csv_structure ==
    /\ pc = "validate"
    /\ asked' = << >>
    /\ \E opened \in BOOLEAN :
         IF ~opened
         THEN /\ output' = output \o <<Msg("ValidationError", << >>),
                                       Msg("TerminatedInvalidStructure", << >>)>>
              /\ pc' = "done"
         ELSE IF file.header = << >>
         THEN /\ output' = output \o <<Msg("EmptyOrMalformed", << >>),
                                       Msg("TerminatedInvalidStructure", << >>)>>
              /\ pc' = "done"
         ELSE IF missing_fields(file.header) # << >>
         THEN /\ output' = output \o <<Msg("MissingColumns", missing_fields(file.header)),
                                       Msg("RequiredColumns", required_fields),
                                       Msg("TerminatedInvalidStructure", << >>)>>
              /\ pc' = "done"
         ELSE /\ pc' = "load"
              /\ UNCHANGED output
    /\ UNCHANGED <<file, attempts, acquired, read, menu_items, menu_data>>

(***************************************************************************)
(* load_data_from_csv, a row at a time, and main's test of what it         *)
(* returns.                                                                *)
(***************************************************************************)
\* menu_data = load_data_from_csv(sample_csv); if not menu_data: ... return
MainAfterLoad(data, printed) ==
    /\ menu_data' = data
    /\ IF ~Truthy(data)
       THEN /\ output' = Append(printed, Msg("TerminatedLoadFailed", << >>))
            /\ pc' = "done"
       ELSE /\ output' = printed
            /\ pc' = "display"

\* with open(...) as file: reader = csv.DictReader(file)
load_open ==
    /\ pc = "load"
    /\ \E opened \in BOOLEAN :
         IF opened
         THEN /\ pc' = "rows"
              /\ UNCHANGED <<menu_data, output>>
         ELSE MainAfterLoad("None",
                            Append(output, Msg("CriticalLoadError", << >>)))
    /\ UNCHANGED <<file, attempts, asked, acquired, read, menu_items>>

\* one iteration of `for row_num, row in enumerate(reader, 1)`
load_row ==
    /\ pc = "rows"
    /\ Len(read) < file.nrows
    /\ \E cells \in NextRows(file, Len(read) + 1) :
         LET outcome == ParseRow(file.header, cells)
             step    == LoadStep(menu_items, outcome)
             row_num == Len(read) + 1
         IN  /\ read' = Append(read, cells)
             /\ menu_items' = step.menu_items
             /\ IF step.returnsNone
                THEN MainAfterLoad(
                       "None",
                       IF outcome.exc \in {"KeyError", "ValueError"}
                       THEN output \o <<Msg("DataError", <<row_num, outcome.why>>),
                                        Msg("ProblematicRow", cells)>>
                       ELSE Append(output, Msg("CriticalLoadError", <<outcome.exc>>)))
                ELSE UNCHANGED <<pc, menu_data, output>>
    /\ UNCHANGED <<file, attempts, asked, acquired>>

\* the reader is exhausted: return menu_items
load_return ==
    /\ pc = "rows"
    /\ Len(read) = file.nrows
    /\ MainAfterLoad("dict", output)
    /\ UNCHANGED <<file, attempts, asked, acquired, read, menu_items>>

(***************************************************************************)
(* The four reports: each prints the table of the items it lists.          *)
(***************************************************************************)
Report(at, kind, listed, next) ==
    /\ pc = at
    /\ output' = Append(output, Msg(kind, ItemNames(listed)))
    /\ pc' = next
    /\ UNCHANGED <<file, attempts, asked, acquired, read, menu_items, menu_data>>

display_menu == Report("display", "MenuTable", menu_items, "popular")

analyze_popular_items ==
    Report("popular", "PopularityAnalysis", menu_items, "underrated")

identify_underrated_items ==
    Report("underrated", "UnderratedItems",
           SelectSeq(menu_items, IsUnderrated), "unprofitable")

identify_unprofitable_items ==
    Report("unprofitable", "UnprofitableItems",
           SelectSeq(menu_items, IsUnprofitable), "done")

Next ==
    \/ handle_csv_creation_exists
    \/ handle_csv_creation_missing
    \/ validate_csv_structure
    \/ load_open
    \/ load_row
    \/ load_return
    \/ display_menu
    \/ analyze_popular_items
    \/ identify_underrated_items
    \/ identify_unprofitable_items

Spec == Init /\ [][Next]_vars

(***************************************************************************)
(* Vocabulary of the properties.                                           *)
(***************************************************************************)
FailureKinds ==
    {"TerminatedCsvRequired", "ValidationError", "EmptyOrMalformed", "MissingColumns",
     "TerminatedInvalidStructure", "DataError", "CriticalLoadError", "TerminatedLoadFailed"}

ReportOrder == <<"MenuTable", "PopularityAnalysis", "UnderratedItems", "UnprofitableItems">>

ReportKinds == {ReportOrder[i] : i \in 1..Len(ReportOrder)}

Printed(kind) == \E i \in 1..Len(output) : output[i].kind = kind

\* the kinds of the reports printed, in order
ReportsPrinted ==
    LET reports == SelectSeq(output, LAMBDA m : m.kind \in ReportKinds)
    IN  [i \in 1..Len(reports) |-> reports[i].kind]

\* the outcome of the loop body of load_data_from_csv on each row the reader
\* can yield, under each header a file can have
RowOutcome ==
    [header \in Headers |->
        [cells \in RowPool \cup {sample_data[i] : i \in 1..Len(sample_data)} |->
            ParseRow(header, cells)]]

RowParses(cells) == RowOutcome[file.header][cells].exc = "none"

NameOf(cells) == RowGet(file.header, cells, "item").text

SeqRange(q) == {q[i] : i \in 1..Len(q)}

\* validate_csv_structure opened the file and found its header wanting
SchemaRejected ==
    /\ pc \notin {"acquire", "validate"}
    /\ acquired = sample_csv
    /\ ~Printed("ValidationError")
    /\ \/ file.header = << >>
       \/ \E c \in SeqRange(required_fields) : c \notin SeqRange(file.header)

NoRowParsed == read = << >> /\ menu_items = << >> /\ menu_data = "unset"

\* C1: load_data_from_csv returns the mapping only when it read every row of
\* the file and every row parsed; a row that fails is the last row read (no
\* later row is parsed) and the caller receives None, whatever rows
\* succeeded before it.
C1_FailFastLoad ==
    /\ menu_data = "dict" =>
          /\ Len(read) = file.nrows
          /\ \A k \in 1..Len(read) : RowParses(read[k])
    /\ \A k \in 1..Len(read) :
          ~RowParses(read[k]) => k = Len(read) /\ menu_data = "None"

C1_Witness ==
    /\ menu_data = "None"
    /\ Len(read) = 2
    /\ RowParses(read[1])
    /\ ~RowParses(read[2])
    /\ menu_items # << >>
    /\ file.nrows > Len(read)

\* C2 as claimed: whenever the header is absent or lacks a required column,
\* the run ends with an error naming exactly the missing columns and no row
\* is handed to the record parser.
C2_SchemaErrorNamesMissing ==
    SchemaRejected =>
        /\ \E i \in 1..Len(output) :
              /\ output[i].kind = "MissingColumns"
              /\ SeqRange(output[i].info) = SeqRange(required_fields) \ SeqRange(file.header)
        /\ pc = "done"
        /\ NoRowParsed

\* C2 as amended: a header that is present and lacks required columns ends
\* the run with an error naming exactly the missing columns; an absent
\* header ends it with the "empty or malformed" error, which names no
\* column; in both cases no row is handed to the record parser.
C2_SchemaCheckPrecedesParsing ==
    SchemaRejected =>
        /\ IF file.header = << >>
           THEN Printed("EmptyOrMalformed") /\ ~Printed("MissingColumns")
           ELSE /\ ~Printed("EmptyOrMalformed")
                /\ \E i \in 1..Len(output) :
                      /\ output[i].kind = "MissingColumns"
                      /\ SeqRange(output[i].info) =
                            SeqRange(required_fields) \ SeqRange(file.header)
        /\ Printed("TerminatedInvalidStructure")
        /\ pc = "done"
        /\ NoRowParsed

C2_Witness ==
    /\ pc = "done"
    /\ file.header = HeaderNoPriceNoRatings
    /\ file.nrows > 0
    /\ Printed("MissingColumns")

\* C3: after a successful load the mapping has exactly one entry per distinct
\* item name of the file, and each entry is the data of the last row
\* carrying that name.
C3_LastWriteWins ==
    menu_data = "dict" =>
        /\ \A i, j \in 1..Len(menu_items) :
              menu_items[i].item = menu_items[j].item => i = j
        /\ {menu_items[i].item : i \in 1..Len(menu_items)}
              = {NameOf(read[k]) : k \in 1..Len(read)}
        /\ \A i \in 1..Len(menu_items) :
              \E k \in 1..Len(read) :
                 /\ NameOf(read[k]) = menu_items[i].item
                 /\ \A later \in (k + 1)..Len(read) : NameOf(read[later]) # NameOf(read[k])
                 /\ menu_items[i] = RowOutcome[file.header][read[k]].obj

C3_Witness ==
    /\ menu_data = "dict"
    /\ Len(read) = 3
    /\ NameOf(read[1]) = NameOf(read[3])
    /\ read[1] # read[3]
    /\ NameOf(read[2]) # NameOf(read[1])
    /\ Len(menu_items) = 2

\* C4: a row whose sales field does not split into exactly 7 tokens makes
\* the construction fail: it is the last row read, it is reported as a data
\* error of that row, and it adds no entry; for a row with 7 integer tokens
\* that yields a MenuItem, the i-th token is stored under the i-th weekday.
C4_SalesArity ==
    \A k \in 1..Len(read) :
        LET sales  == RowGet(file.header, read[k], "sales_per_day")
            tokens == Split(sales.text, ",")
        IN  ~sales.none =>
            /\ Len(tokens) # 7 =>
                  /\ ~RowParses(read[k])
                  /\ k = Len(read)
                  /\ menu_data = "None"
                  /\ Printed("DataError")
                  /\ Len(menu_items) < k
            /\ (Len(tokens) = 7 /\ RowParses(read[k])) =>
                  LET made == RowOutcome[file.header][read[k]].obj
                  IN  /\ DOMAIN made.sales_per_day =
                            {"Mon", "Tue", "Wed", "Thu", "Fri", "Sat", "Sun"}
                      /\ made.sales_per_day["Mon"] = ParseInt(tokens[1]).val
                      /\ made.sales_per_day["Tue"] = ParseInt(tokens[2]).val
                      /\ made.sales_per_day["Wed"] = ParseInt(tokens[3]).val
                      /\ made.sales_per_day["Thu"] = ParseInt(tokens[4]).val
                      /\ made.sales_per_day["Fri"] = ParseInt(tokens[5]).val
                      /\ made.sales_per_day["Sat"] = ParseInt(tokens[6]).val
                      /\ made.sales_per_day["Sun"] = ParseInt(tokens[7]).val
                      /\ (k = Len(read) /\ menu_data # "None") =>
                            \E i \in 1..Len(menu_items) : menu_items[i] = made

C4_Witness ==
    /\ Len(read) = 2
    /\ RowGet(file.header, read[1], "sales_per_day").text = Sales29
    /\ RowParses(read[1])
    /\ RowGet(file.header, read[2], "sales_per_day").text = SalesEight
    /\ menu_data = "None"
    /\ Len(menu_items) = 1
    /\ menu_items[1].sales_per_day["Sun"] = 8

\* the fractional digits of a decimal text that remain once its trailing
\* zeros are removed
SignificantFractionDigits(text) ==
    LET parts == Split(Unsigned(Strip(text)), ".")
    IN  IF Len(parts) = 2 THEN Len(RStripZeros(parts[2])) ELSE 0

\* C5 as claimed: the precision validator accepts a decimal value exactly
\* when its decimal representation, trailing zeros removed, has at most 2
\* fractional digits.
C5_PrecisionValidator ==
    \A k \in 1..Len(read) :
        LET price == RowGet(file.header, read[k], "price")
        IN  (~price.none /\ ParseFloat(price.text).ok) =>
                (validate_float_precision(ParseFloat(price.text).val, 2)
                    <=> SignificantFractionDigits(price.text) <= 2)

\* C6 as claimed: every MenuItem of a returned mapping has a non-negative
\* price and 7 non-negative sales values.
C6_NonNegative ==
    menu_data = "dict" =>
        \A i \in 1..Len(menu_items) :
            /\ ~FloatLess(menu_items[i].price, FloatFromInt(0))
            /\ \A d \in DOMAIN menu_items[i].sales_per_day :
                  menu_items[i].sales_per_day[d] >= 0

\* C6 as amended: every MenuItem of a returned mapping has a price that
\* passes the precision validator at 2 decimals, at least one rating, and an
\* integer sales value for each of the 7 weekdays; the sign of neither the
\* price nor a sales value is checked.
C6_DataModelInvariant ==
    menu_data = "dict" =>
        \A i \in 1..Len(menu_items) :
            /\ Split(FormatFixed(menu_items[i].price, 3), ".")[2][3] = "0"
            /\ Len(menu_items[i].ratings) >= 1
            /\ DOMAIN menu_items[i].sales_per_day =
                  {"Mon", "Tue", "Wed", "Thu", "Fri", "Sat", "Sun"}
            /\ \A d \in DOMAIN menu_items[i].sales_per_day :
                  menu_items[i].sales_per_day[d] \in Int

C6_Witness ==
    /\ menu_data = "dict"
    /\ \E i, j \in 1..Len(menu_items) :
          /\ FloatLess(menu_items[i].price, FloatFromInt(0))
          /\ menu_items[j].sales_per_day["Mon"] < 0

\* the items a report of the given kind lists
Listed(kind) ==
    UNION {SeqRange(output[i].info) : i \in {j \in 1..Len(output) : output[j].kind = kind}}

\* C7: of a loaded mapping, the underrated report lists exactly the items
\* whose average rating (as average_rating computes it) is >= 4.5 and whose
\* total sales are < 50, and the unprofitable report exactly those with
\* average < 3.5 and total < 30; a report that lists nothing is still
\* printed.
C7_ThresholdClassification ==
    /\ Printed("UnderratedItems") =>
          \A i \in 1..Len(menu_items) :
              menu_items[i].item \in Listed("UnderratedItems")
                  <=> /\ ~FloatLess(average_rating(menu_items[i]), FloatFromDecimal(FALSE, 45, 1))
                      /\ total_sales(menu_items[i]) <= 49
    /\ Printed("UnprofitableItems") =>
          \A i \in 1..Len(menu_items) :
              menu_items[i].item \in Listed("UnprofitableItems")
                  <=> /\ FloatLess(average_rating(menu_items[i]), FloatFromDecimal(FALSE, 35, 1))
                      /\ total_sales(menu_items[i]) <= 29
    /\ (pc = "done" /\ Printed("MenuTable")) =>
          Printed("UnderratedItems") /\ Printed("UnprofitableItems")

C7_Witness ==
    /\ pc = "done"
    /\ Len(menu_items) = 2
    /\ Listed("UnderratedItems") = {NameA}
    /\ Listed("UnprofitableItems") = {NameB}
    /\ average_rating(menu_items[1]) = FloatFromDecimal(FALSE, 45, 1)
    /\ total_sales(menu_items[1]) = 49
    /\ total_sales(menu_items[2]) = 29

\* C8: once a failure of acquisition, of the schema check or of the load is
\* reported the run is over and no report is ever printed; reports are
\* printed only after acquisition, schema check and load all succeeded, and
\* in their fixed order.
C8_NoReportAfterFailure ==
    /\ ((\E i \in 1..Len(output) : output[i].kind \in FailureKinds)
            \/ acquired = "None" \/ menu_data = "None") =>
          pc = "done" /\ ReportsPrinted = << >>
    /\ ReportsPrinted # << >> =>
          /\ acquired = sample_csv
          /\ file.header # << >>
          /\ \A c \in SeqRange(required_fields) : c \in SeqRange(file.header)
          /\ menu_data = "dict"
          /\ Len(read) = file.nrows
          /\ ReportsPrinted = SubSeq(ReportOrder, 1, Len(ReportsPrinted))

C8_Witness ==
    /\ pc = "done"
    /\ Printed("DataError")
    /\ Len(read) = 3
    /\ Len(menu_items) = 2
    /\ ReportsPrinted = << >>

\* C9 as claimed: a run in which acquisition returned a path, the schema
\* check passed and every row of the file parsed (a file of zero rows
\* included) ends without a load failure reported and with all four
\* reports printed.
C9_SuccessfulLoadReports ==
    (pc = "done" /\ acquired = sample_csv /\ menu_data = "dict") =>
        /\ ~Printed("TerminatedLoadFailed")
        /\ ReportsPrinted = ReportOrder

\* C10: handle_csv_creation changes a file that exists only in an iteration
\* in which the user did not answer yes to using it, chose 1, and answered
\* yes to the overwrite; and when it has returned the path, the file exists.
C10_PromptLoop ==
    /\ [][(file.exists /\ file' # file) =>
            /\ Len(asked') = 3
            /\ asked'[1] \in {No, Empty}
            /\ asked'[2] \in {One, OnePadded}
            /\ asked'[3] \in {Yes, YesUpper}]_vars
    /\ [](acquired = sample_csv => file.exists)

C10_Witness ==
    /\ pc = "validate"
    /\ acquired = sample_csv
    /\ file.sample
    /\ Len(asked) = 3
    /\ asked[1] = Empty
    /\ asked[3] = YesUpper

=============================================================================
